---- MODULE Spec2Model ----
(***************************************************************************)
(* TwoToneEnhancements: the retry / backoff / alert loops of the scripts.  *)
(*                                                                         *)
(*   pn_*   ttd_pre_notification.py (v1.7.9)   send_webhook + main         *)
(*   old_*  TwoToneDetect Pre-Notification.py (v1.7.1)  send_webhook + main*)
(*   tr_*   ttd_transcribed.py                  process_file, send_webhook *)
(*   bk_*   ttd_backup.py                       upload_file_to_ftp, main   *)
(*   hb_*   ttd_heartbeat_monitor.py            main loop, send_alert      *)
(*   cl_*   ttd_pre_notification.py             cleanup_logs               *)
(*   ps_*   ttd_program_starter.py              start_program              *)
(*                                                                         *)
(* Every script is a process of its own: a behaviour of Spec is one run of *)
(* one script, the variables of the other scripts stay at their idle       *)
(* values.                                                                 *)
(***************************************************************************)
EXTENDS Integers, Sequences, FiniteSets, TLC

VARIABLES
    \* ---- ttd_pre_notification.py ----
    pn_pc,                 \* "loop" | "returned" | "exit"
    pn_retries,            \* args.retries
    pn_initial_backoff,    \* config: initial_backoff
    pn_backoff_multiplier, \* config: backoff_multiplier
    pn_attempt,            \* local attempt
    pn_backoff_time,       \* local backoff_time
    pn_posts,              \* number of requests.post calls made to the webhook
    pn_outcomes,           \* outcome of each POST so far, in order
    pn_sleeps,             \* sleep() calls so far: [attempt, cls, wait]
    pn_result,             \* "none" | "True" | "False"
    pn_alerts,             \* number of send_error_notification calls
    \* ---- part_000 (v1.7.1) ----
    old_pc,                \* "loop" | "blocked" | "returned" | "exit"
    old_retries,
    old_attempt,
    old_backoff_time,
    old_response_bound,    \* the local `response` has been assigned
    old_posts,
    old_outcomes,
    old_sleeps,
    old_result,            \* "none" | "True" | "False" | "raised"
    old_alerts,            \* send_error_notification calls: [kind, delivered]
    \* ---- ttd_transcribed.py ----
    tr_pc,                 \* process_file: "start" | "loop" | "failed" |
                           \* "returned" (send_webhook has) | "excepted"
                           \* (send_webhook raised) | "finally" |
                           \* "finally_exc" (finally, an exception pending) |
                           \* "done" (returned) | "raised"
    tr_retry_limit,
    tr_retry_delay,
    tr_creds,              \* PUSHOVER_TOKEN and PUSHOVER_USER are set
    tr_attempt,
    tr_posts,
    tr_outcomes,
    tr_sleeps,
    tr_result,
    tr_task_notifications,
    tr_error_notifications,
    tr_pushover,           \* Pushover POSTs: [title, delivered, body]
    tr_delete_after,       \* config: delete_after_processing
    tr_audio_present,      \* the MP3 file exists
    \* ---- ttd_backup.py ----
    bk_pc,                 \* "main" | "loop" | "failed" | "returned" |
                           \* "retained" | "ending" | "done"
    bk_retries,
    bk_attempt,
    bk_iterations,         \* loop bodies entered
    bk_stors,              \* ftp.storbinary calls
    bk_prestor,            \* loop bodies that failed before ftp.storbinary
    bk_result,
    bk_now,                \* time.time()
    last_pushover_time,
    bk_pushover,           \* send_pushover_notification calls: [msg, at, sent]
    bk_http,               \* requests.post calls of send_pushover_notification
    bk_local_md5,          \* local_md5 of the last pass, or BK_NoHash
    bk_remote_md5,         \* remote_md5 of the last pass, or BK_NoHash
    bk_current,            \* when the backup of this run was named
    bk_listing,            \* the backups ftp.nlst() returned
    bk_popped,             \* the backups the count rule chose
    bk_deleted,            \* the backups the count rule deleted
    bk_expired,            \* the backups the age rule deleted
    bk_main                \* how main left its try block: "none" (not yet),
                           \* "end" (by its end), "return" (no FTP
                           \* connection), "exception" (the handler ran)

\* ttd_heartbeat_monitor.py (times in seconds)
VARIABLES
    hb_pc,                 \* "off" | "poll" | "restart" | "sleep_extra" |
                           \* "sleep" | "exit" | "crashed" (an exception
                           \* left the main loop)
    check_interval,
    enable_rate_limiting,
    enable_restart_notifications,
    hb_now,                \* time.time()
    last_alert_time,       \* HB_None or a time
    hb_alerts,             \* send_alert calls:
                           \* [msg, at, relaunch_success, sent]
    hb_last_delivery,      \* whether the POSTs of the alert sent by the
                           \* step just taken succeeded: [webhook, pushover]
    hb_webhook_posts,      \* requests.post(webhook_url) calls
    hb_pushover_posts,     \* requests.post(pushover_url) calls
    hb_attempt,            \* start_external_script: attempt
    hb_runs,               \* subprocess.run calls
    hb_polls,              \* check_heartbeat calls
    hb_episode_starts,     \* start_external_script calls since
                           \* check_heartbeat last returned True
    hb_threshold,          \* [Heartbeat] threshold as configured, or HB_Unset
    heartbeat_threshold,   \* the threshold check_heartbeat compares with
    hb_heartbeat,          \* what the check_heartbeat of this pass of the
                           \* loop found: [kind, age]
    hb_interval_sleeps,    \* time.sleep(check_interval) calls since the
                           \* last check_heartbeat
    hb_run_outcomes,       \* start_external_script of this pass of the loop:
                           \* how each subprocess.run ended, in order
    hb_retry_sleeps        \* start_external_script of this pass of the loop:
                           \* time.sleep(5) calls

\* cleanup_logs of ttd_pre_notification.py (ages in days)
VARIABLES
    cl_pc,                 \* "off" | "start" | "done"
    cl_others,             \* the ages of the files of log_dir other than the
                           \* log file of this run
    max_logs,
    max_log_days,
    cl_aged,               \* the files the age rule deleted
    cl_excess,             \* the files the count rule deleted
    cl_kept                \* the files left in log_dir

\* ttd_program_starter.py
VARIABLES
    ps_pc,                 \* "off" | "start" | "done" | "raised"
    ps_runs,               \* subprocess.run calls
    ps_sleeps,             \* time.sleep calls
    ps_alerts              \* send_alert calls: [delivered]

pn_vars == <<pn_pc, pn_retries, pn_initial_backoff, pn_backoff_multiplier,
             pn_attempt, pn_backoff_time, pn_posts, pn_outcomes, pn_sleeps,
             pn_result, pn_alerts>>
old_vars == <<old_pc, old_retries, old_attempt, old_backoff_time,
              old_response_bound, old_posts, old_outcomes, old_sleeps,
              old_result, old_alerts>>
tr_vars == <<tr_pc, tr_retry_limit, tr_retry_delay, tr_creds, tr_attempt,
             tr_posts, tr_outcomes, tr_sleeps, tr_result,
             tr_task_notifications, tr_error_notifications, tr_pushover,
             tr_delete_after, tr_audio_present>>
bk_vars == <<bk_pc, bk_retries, bk_attempt, bk_iterations, bk_stors,
             bk_prestor, bk_result, bk_now, last_pushover_time, bk_pushover,
             bk_http, bk_local_md5, bk_remote_md5, bk_current, bk_listing,
             bk_popped, bk_deleted, bk_expired, bk_main>>
hb_vars == <<hb_pc, check_interval, enable_rate_limiting,
             enable_restart_notifications, hb_now, last_alert_time, hb_alerts,
             hb_last_delivery, hb_webhook_posts, hb_pushover_posts,
             hb_attempt, hb_runs, hb_polls, hb_episode_starts, hb_threshold,
             heartbeat_threshold, hb_heartbeat, hb_interval_sleeps,
             hb_run_outcomes, hb_retry_sleeps>>
cl_vars == <<cl_pc, cl_others, max_logs, max_log_days, cl_aged, cl_excess,
             cl_kept>>
ps_vars == <<ps_pc, ps_runs, ps_sleeps, ps_alerts>>
vars == <<pn_vars, old_vars, tr_vars, bk_vars, hb_vars, cl_vars, ps_vars>>

----------------------------------------------------------------------------
\* Bounds of the model.

\* largest retry budget tried for the webhook loops
MaxRetries == 4

\* largest `retries` argument tried for upload_file_to_ftp (main passes
\* none: the default is 1)
MaxFtpRetries == 1

\* how many seconds the clock may advance during one backup run
MaxTicks == 3

\* how many times the heartbeat monitor calls check_heartbeat
HB_MaxPolls == 2

\* b ** n for n >= 0
RECURSIVE Pow(_, _)
Pow(b, n) == IF n = 0 THEN 1 ELSE b * Pow(b, n - 1)

Min(a, b) == IF a < b THEN a ELSE b

\* the waits of a sleep log, in order
Waits(s) == [i \in 1..Len(s) |-> s[i].wait]

\* the entries of a sleep log whose class is in classes, in order
RECURSIVE SelectCls(_, _)
SelectCls(s, classes) ==
    IF s = <<>> THEN <<>>
    ELSE IF Head(s).cls \in classes
         THEN <<Head(s)>> \o SelectCls(Tail(s), classes)
         ELSE SelectCls(Tail(s), classes)

\* number of entries of s that are in set S
RECURSIVE CountIn(_, _)
CountIn(s, S) ==
    IF s = <<>> THEN 0
    ELSE (IF Head(s) \in S THEN 1 ELSE 0) + CountIn(Tail(s), S)

----------------------------------------------------------------------------
\* ttd_pre_notification.py

\* the except clause that handles the POST (or "ok": no exception)
PN_Outcomes == {"ok", "conn", "timeout", "http", "other"}
PN_Failures == PN_Outcomes \ {"ok"}

\* what the remote end of a POST may do: the outcomes, or never respond
Remote == PN_Outcomes \cup {"hang"}

\* how requests.post(..., timeout=timeout_seconds) ends when the remote end
\* behaves as r: a silent remote end raises Timeout
PN_PostOutcome(r) == IF r = "hang" THEN "timeout" ELSE r
\* the classes whose handler sleeps backoff_time
ExpClasses == {"timeout", "http", "other"}

\* values of [ttd_pre_notification_Retry] tried
PN_InitialBackoffs == {0, 1, 5}
PN_Multipliers == {0, 1, 2}

PN_Idle ==
    /\ pn_pc = "exit"
    /\ pn_retries = 0
    /\ pn_initial_backoff = 0
    /\ pn_backoff_multiplier = 0
    /\ pn_attempt = 0
    /\ pn_backoff_time = 0
    /\ pn_posts = 0
    /\ pn_outcomes = <<>>
    /\ pn_sleeps = <<>>
    /\ pn_result = "none"
    /\ pn_alerts = 0

\* main() has parsed its arguments and send_webhook is at `while`
PN_Init ==
    /\ pn_pc = "loop"
    /\ pn_retries \in 0..MaxRetries
    /\ pn_initial_backoff \in PN_InitialBackoffs
    /\ pn_backoff_multiplier \in PN_Multipliers
    /\ pn_attempt = 0
    /\ pn_backoff_time = pn_initial_backoff
    /\ pn_posts = 0
    /\ pn_outcomes = <<>>
    /\ pn_sleeps = <<>>
    /\ pn_result = "none"
    /\ pn_alerts = 0

\* the wait of the ConnectionError handler
PN_ConnWait == 1

\* PN_SleepAfter that sleeps after the last attempt too
PN_SleepAfter_Always(cls, attempt, retries, backoff_time) ==
    <<[attempt |-> attempt + 1, cls |-> cls,
       wait |-> IF cls = "conn" THEN PN_ConnWait ELSE backoff_time]>>

\* the sleep of an except clause: none on the last attempt
PN_SleepAfter(cls, attempt, retries, backoff_time) ==
    IF attempt < retries - 1
    THEN <<[attempt |-> attempt + 1, cls |-> cls,
            wait |-> IF cls = "conn" THEN PN_ConnWait ELSE backoff_time]>>
    ELSE <<>>

\* PN_BackoffAfter with `backoff_time = backoff_multiplier` for `*=`
PN_BackoffAfter_Assign(cls, attempt, retries, backoff_time, multiplier) ==
    IF cls \in ExpClasses /\ attempt < retries - 1
    THEN multiplier
    ELSE backoff_time

\* backoff_time after an except clause
PN_BackoffAfter(cls, attempt, retries, backoff_time, multiplier) ==
    IF cls \in ExpClasses /\ attempt < retries - 1
    THEN backoff_time * multiplier
    ELSE backoff_time

\* while attempt < retries
PN_LoopCond(attempt, retries) == attempt < retries

\* PN_ReturnsTrue without the `return True`
PN_ReturnsTrue_Never(o) == FALSE

\* `return True` is reached when neither requests.post nor raise_for_status
\* raises
PN_ReturnsTrue(o) == o = "ok"

\* one pass of the while loop: the POST, its handler and attempt += 1
PN_Attempt(o) ==
    /\ pn_pc = "loop"
    /\ PN_LoopCond(pn_attempt, pn_retries)
    /\ pn_posts' = pn_posts + 1
    /\ pn_outcomes' = Append(pn_outcomes, o)
    /\ IF PN_ReturnsTrue(o)
       THEN /\ pn_result' = "True"
            /\ pn_pc' = "returned"
            /\ UNCHANGED <<pn_attempt, pn_backoff_time, pn_sleeps>>
       ELSE /\ pn_sleeps' = pn_sleeps \o
                    PN_SleepAfter(o, pn_attempt, pn_retries, pn_backoff_time)
            /\ pn_backoff_time' =
                    PN_BackoffAfter(o, pn_attempt, pn_retries, pn_backoff_time,
                                    pn_backoff_multiplier)
            /\ pn_attempt' = pn_attempt + 1
            /\ UNCHANGED <<pn_result, pn_pc>>
    /\ UNCHANGED <<pn_retries, pn_initial_backoff, pn_backoff_multiplier,
                   pn_alerts>>

\* the loop condition fails: log and return False
PN_GiveUp ==
    /\ pn_pc = "loop"
    /\ ~PN_LoopCond(pn_attempt, pn_retries)
    /\ pn_result' = "False"
    /\ pn_pc' = "returned"
    /\ UNCHANGED <<pn_retries, pn_initial_backoff, pn_backoff_multiplier,
                   pn_attempt, pn_backoff_time, pn_posts, pn_outcomes,
                   pn_sleeps, pn_alerts>>

\* main() after send_webhook returned: a False result is only logged
PN_Main ==
    /\ pn_pc = "returned"
    /\ pn_pc' = "exit"
    /\ UNCHANGED <<pn_retries, pn_initial_backoff, pn_backoff_multiplier,
                   pn_attempt, pn_backoff_time, pn_posts, pn_outcomes,
                   pn_sleeps, pn_result, pn_alerts>>

PN_Post == \E r \in Remote : PN_Attempt(PN_PostOutcome(r))

----------------------------------------------------------------------------
\* part_000: TwoToneDetect Pre-Notification.py v1.7.1

\* backoff_time = 5
Old_InitialBackoff == 5

\* backoff_time *= 2
Old_Multiplier == 2

Old_Idle ==
    /\ old_pc = "exit"
    /\ old_retries = 0
    /\ old_attempt = 0
    /\ old_backoff_time = 0
    /\ old_response_bound = FALSE
    /\ old_posts = 0
    /\ old_outcomes = <<>>
    /\ old_sleeps = <<>>
    /\ old_result = "none"
    /\ old_alerts = <<>>

Old_Init ==
    /\ old_pc = "loop"
    /\ old_retries \in 0..MaxRetries
    /\ old_attempt = 0
    /\ old_backoff_time = Old_InitialBackoff
    /\ old_response_bound = FALSE
    /\ old_posts = 0
    /\ old_outcomes = <<>>
    /\ old_sleeps = <<>>
    /\ old_result = "none"
    /\ old_alerts = <<>>

\* send_error_notification: one Pushover POST, a failure of it is only logged
Old_send_error_notification(alerts, kind, delivered) ==
    Append(alerts, [kind |-> kind, delivered |-> delivered])

\* the except RequestException clause formats `response` before anything
\* else: with `response` never assigned that raises UnboundLocalError
Old_HandlerRaises(cls, response_bound) ==
    cls = "other" /\ ~response_bound

\* Old_SleepAfter with the doubling done before the sleep
Old_SleepAfter_Late(cls, attempt, retries, backoff_time) ==
    IF attempt < retries - 1
    THEN <<[attempt |-> attempt + 1, cls |-> cls,
            wait |-> IF cls = "conn" THEN 1
                     ELSE backoff_time * Old_Multiplier]>>
    ELSE <<>>

\* the sleep of an except clause: none on the last attempt
Old_SleepAfter(cls, attempt, retries, backoff_time) ==
    IF attempt < retries - 1
    THEN <<[attempt |-> attempt + 1, cls |-> cls,
            wait |-> IF cls = "conn" THEN 1 ELSE backoff_time]>>
    ELSE <<>>

\* Old_BackoffAfter with the ConnectionError clause doubling as well
Old_BackoffAfter_AllClasses(cls, attempt, retries, backoff_time) ==
    IF attempt < retries - 1
    THEN backoff_time * Old_Multiplier
    ELSE backoff_time

\* backoff_time after an except clause
Old_BackoffAfter(cls, attempt, retries, backoff_time) ==
    IF cls \in ExpClasses /\ attempt < retries - 1
    THEN backoff_time * Old_Multiplier
    ELSE backoff_time

\* while attempt < retries
Old_LoopCond(attempt, retries) == attempt < retries

\* `return True` is reached when neither requests.post nor raise_for_status
\* raises
Old_ReturnsTrue(o) == o = "ok"

\* how requests.post(webhook_url, json=payload) ends when the remote end
\* behaves as r: no timeout is passed, a silent remote end blocks the call
Old_PostOutcome(r) == r

\* one pass of the while loop; d is the outcome of the alert's Pushover POST
Old_Attempt(o, d) ==
    /\ old_pc = "loop"
    /\ Old_LoopCond(old_attempt, old_retries)
    /\ old_posts' = old_posts + 1
    /\ old_outcomes' = Append(old_outcomes, o)
    /\ old_response_bound' = (old_response_bound \/ o \in {"ok", "http"})
    /\ IF o = "hang"
       THEN /\ old_pc' = "blocked"
            /\ UNCHANGED <<old_attempt, old_backoff_time, old_sleeps,
                           old_alerts, old_result>>
       ELSE IF Old_ReturnsTrue(o)
       THEN /\ old_result' = "True"
            /\ old_pc' = "returned"
            /\ UNCHANGED <<old_attempt, old_backoff_time, old_sleeps,
                           old_alerts>>
       ELSE IF Old_HandlerRaises(o, old_response_bound)
       THEN /\ old_result' = "raised"
            /\ old_pc' = "exit"
            /\ UNCHANGED <<old_attempt, old_backoff_time, old_sleeps,
                           old_alerts>>
       ELSE /\ old_alerts' = Old_send_error_notification(old_alerts, o, d)
            /\ old_sleeps' = old_sleeps \o
                   Old_SleepAfter(o, old_attempt, old_retries,
                                  old_backoff_time)
            /\ old_backoff_time' =
                   Old_BackoffAfter(o, old_attempt, old_retries,
                                    old_backoff_time)
            /\ old_attempt' = old_attempt + 1
            /\ UNCHANGED <<old_result, old_pc>>
    /\ UNCHANGED old_retries

\* after the loop: the final alert, return False
Old_GiveUp(d) ==
    /\ old_pc = "loop"
    /\ ~Old_LoopCond(old_attempt, old_retries)
    /\ old_alerts' = Old_send_error_notification(old_alerts, "final", d)
    /\ old_result' = "False"
    /\ old_pc' = "returned"
    /\ UNCHANGED <<old_retries, old_attempt, old_backoff_time,
                   old_response_bound, old_posts, old_outcomes, old_sleeps>>

Old_Main ==
    /\ old_pc = "returned"
    /\ old_pc' = "exit"
    /\ UNCHANGED <<old_retries, old_attempt, old_backoff_time,
                   old_response_bound, old_posts, old_outcomes, old_sleeps,
                   old_result, old_alerts>>

Old_Post == \E r \in Remote, d \in BOOLEAN :
                Old_Attempt(Old_PostOutcome(r), d)

Old_Fail == \E d \in BOOLEAN : Old_GiveUp(d)

----------------------------------------------------------------------------
\* ttd_transcribed.py: send_webhook

\* "ok", or the exception of the POST, one for each type the except clause
\* names: an aiohttp.ClientError (ClientConnectionError, "conn"),
\* asyncio.TimeoutError ("timeout")
TR_Outcomes == {"ok", "conn", "timeout"}

\* what the remote end of the POST may do
TR_Remote == TR_Outcomes \cup {"hang"}

\* how session.post(..., timeout=timeout_seconds) ends when the remote end
\* behaves as r: a silent remote end raises asyncio.TimeoutError
TR_PostOutcome(r) == IF r = "hang" THEN "timeout" ELSE r

\* values of retry_delay tried
TR_RetryDelays == {1, 5, 40}

\* min(..., 60)
TR_MaxBackoff == 60

TR_Idle ==
    /\ tr_pc = "done"
    /\ tr_delete_after = FALSE
    /\ tr_audio_present = FALSE
    /\ tr_retry_limit = 0
    /\ tr_retry_delay = 0
    /\ tr_creds = FALSE
    /\ tr_attempt = 0
    /\ tr_posts = 0
    /\ tr_outcomes = <<>>
    /\ tr_sleeps = <<>>
    /\ tr_result = "none"
    /\ tr_task_notifications = <<>>
    /\ tr_error_notifications = <<>>
    /\ tr_pushover = <<>>

\* process_file is entered; the module-level cleanup_logs reported nothing
TR_Init ==
    /\ tr_pc = "start"
    /\ tr_delete_after \in BOOLEAN
    /\ tr_audio_present \in BOOLEAN
    /\ tr_retry_limit \in 0..MaxRetries
    /\ tr_retry_delay \in TR_RetryDelays
    /\ tr_creds \in BOOLEAN
    /\ tr_attempt = 0
    /\ tr_posts = 0
    /\ tr_outcomes = <<>>
    /\ tr_sleeps = <<>>
    /\ tr_result = "none"
    /\ tr_task_notifications = <<>>
    /\ tr_error_notifications = <<>>
    /\ tr_pushover = <<>>

\* TR_BackoffTime without the cap
TR_BackoffTime_Uncapped(backoff, attempt) == backoff * Pow(2, attempt - 1)

\* backoff_time = min(backoff * 2 ** (attempt - 1), 60), attempt already
\* incremented
TR_BackoffTime(backoff, attempt) ==
    Min(backoff * Pow(2, attempt - 1), TR_MaxBackoff)

\* while attempt < retry_limit
TR_LoopCond(attempt, retry_limit) == attempt < retry_limit

\* TR_WillRetry with the `retries - 1` of the other scripts
TR_WillRetry_Early(attempt, retry_limit) == attempt < retry_limit - 1

\* if attempt < retry_limit (attempt already incremented): sleep and go on,
\* else break
TR_WillRetry(attempt, retry_limit) == attempt < retry_limit

\* `return True` is reached when the POST and raise_for_status do not raise
TR_ReturnsTrue(o) == o = "ok"

\* one pass of the while loop
TR_Attempt(o) ==
    /\ tr_pc = "loop"
    /\ TR_LoopCond(tr_attempt, tr_retry_limit)
    /\ tr_posts' = tr_posts + 1
    /\ tr_outcomes' = Append(tr_outcomes, o)
    /\ IF TR_ReturnsTrue(o)
       THEN /\ tr_task_notifications' =
                   Append(tr_task_notifications, "webhook_sent")
            /\ tr_result' = "True"
            /\ tr_pc' = "returned"
            /\ UNCHANGED <<tr_attempt, tr_sleeps>>
       ELSE /\ tr_attempt' = tr_attempt + 1
            /\ IF TR_WillRetry(tr_attempt + 1, tr_retry_limit)
               THEN /\ tr_sleeps' = Append(tr_sleeps,
                          [attempt |-> tr_attempt + 1, cls |-> o,
                           wait |-> TR_BackoffTime(tr_retry_delay,
                                                   tr_attempt + 1)])
                    /\ tr_pc' = "loop"
               ELSE /\ tr_sleeps' = tr_sleeps
                    /\ tr_pc' = "failed"
            /\ UNCHANGED <<tr_task_notifications, tr_result>>
    /\ UNCHANGED <<tr_retry_limit, tr_retry_delay, tr_creds,
                   tr_error_notifications, tr_pushover, tr_delete_after,
                   tr_audio_present>>

\* the while condition is false on entry (retry_limit <= 0)
TR_LoopExit ==
    /\ tr_pc = "loop"
    /\ ~TR_LoopCond(tr_attempt, tr_retry_limit)
    /\ tr_pc' = "failed"
    /\ UNCHANGED <<tr_retry_limit, tr_retry_delay, tr_creds, tr_attempt,
                   tr_posts, tr_outcomes, tr_sleeps, tr_result,
                   tr_task_notifications, tr_error_notifications,
                   tr_pushover, tr_delete_after, tr_audio_present>>

\* how the POST of send_pushover_notification_async ends: delivered, an
\* aiohttp.ClientError, or asyncio.TimeoutError when the remote end stays
\* silent (no timeout is passed, the default of the session applies)
TR_Ends == {"delivered", "client_error", "timeout"}

\* send_pushover_notification_async: nothing without credentials; a
\* ClientError of the POST goes to log_error
TR_PushoverLog(pushover, creds, title, d, body) ==
    IF creds
    THEN Append(pushover, [title |-> title, delivered |-> d = "delivered",
                           body |-> body])
    ELSE pushover

TR_PushoverErrors(errors, creds, d) ==
    IF creds /\ d = "client_error" THEN Append(errors, "pushover_failed")
    ELSE errors

\* except aiohttp.ClientError: asyncio.TimeoutError is not caught and leaves
\* send_pushover_notification_async
TR_PushoverRaises(creds, d) == creds /\ d = "timeout"

\* after the loop: log_error, the "Webhook Failed" alert, return False
TR_GiveUp(d) ==
    /\ tr_pc = "failed"
    /\ tr_error_notifications' =
           TR_PushoverErrors(Append(tr_error_notifications, "webhook_failed"),
                             tr_creds, d)
    /\ tr_pushover' = TR_PushoverLog(tr_pushover, tr_creds, "Webhook Failed",
                                     d, <<"webhook_failed">>)
    /\ IF TR_PushoverRaises(tr_creds, d)
       THEN /\ tr_pc' = "excepted"
            /\ UNCHANGED tr_result
       ELSE /\ tr_result' = "False"
            /\ tr_pc' = "returned"
    /\ UNCHANGED <<tr_retry_limit, tr_retry_delay, tr_creds, tr_attempt,
                   tr_posts, tr_outcomes, tr_sleeps, tr_task_notifications,
                   tr_delete_after, tr_audio_present>>

TR_Post == \E r \in TR_Remote : TR_Attempt(TR_PostOutcome(r))

\* process_file: `except Exception`: log_error and the "Script Error" alert
TR_Handler(errors, d) ==
    /\ tr_error_notifications' =
           TR_PushoverErrors(Append(errors, "processing_error"), tr_creds, d)
    /\ tr_pushover' = TR_PushoverLog(tr_pushover, tr_creds, "Script Error", d,
                                     <<"processing_error">>)
    /\ tr_pc' = IF TR_PushoverRaises(tr_creds, d) THEN "finally_exc"
                ELSE "finally"

\* process_file when send_webhook raised: the except clause
TR_Catch(d) ==
    /\ tr_pc = "excepted"
    /\ TR_Handler(tr_error_notifications, d)
    /\ UNCHANGED <<tr_retry_limit, tr_retry_delay, tr_creds, tr_attempt,
                   tr_posts, tr_outcomes, tr_sleeps, tr_result,
                   tr_task_notifications, tr_delete_after, tr_audio_present>>

\* how process_file goes up to the call of send_webhook
TR_BeginOutcomes == {"ok", "transcribe_exc", "save_exc"}

\* process_file from its try to the call of send_webhook: the file test,
\* transcribe_audio (log_system_usage, the model, log_task) and the
\* transcript file
TR_Begin(o, d) ==
    /\ tr_pc = "start"
    /\ IF ~tr_audio_present
       THEN /\ TR_Handler(tr_error_notifications, d)
            /\ UNCHANGED tr_task_notifications
       ELSE IF o = "transcribe_exc"
       THEN /\ tr_task_notifications' = tr_task_notifications \o <<"usage">>
            /\ TR_Handler(Append(tr_error_notifications, "transcribe_failed"),
                          d)
       ELSE IF o = "save_exc"
       THEN /\ tr_task_notifications' = tr_task_notifications \o
                   <<"usage", "transcribed", "usage">>
            /\ TR_Handler(tr_error_notifications, d)
       ELSE /\ tr_task_notifications' = tr_task_notifications \o
                   <<"usage", "transcribed", "usage", "saved">>
            /\ tr_pc' = "loop"
            /\ UNCHANGED <<tr_error_notifications, tr_pushover>>
    /\ UNCHANGED <<tr_retry_limit, tr_retry_delay, tr_creds, tr_attempt,
                   tr_posts, tr_outcomes, tr_sleeps, tr_result,
                   tr_delete_after, tr_audio_present>>

\* TR_Deletes without the test of success
TR_Deletes_Always(result, delete_after) == delete_after

\* if success and delete_after_process
TR_Deletes(result, delete_after) == result = "True" /\ delete_after

\* process_file after send_webhook returned: os.remove of the audio file
\* (rm_ok: it does not raise) and log_task
TR_AfterWebhook(rm_ok, d) ==
    /\ tr_pc = "returned"
    /\ IF TR_Deletes(tr_result, tr_delete_after)
       THEN IF rm_ok
            THEN /\ tr_audio_present' = FALSE
                 /\ tr_task_notifications' =
                        Append(tr_task_notifications, "deleted")
                 /\ tr_pc' = "finally"
                 /\ UNCHANGED <<tr_error_notifications, tr_pushover>>
            ELSE /\ TR_Handler(tr_error_notifications, d)
                 /\ UNCHANGED <<tr_audio_present, tr_task_notifications>>
       ELSE /\ tr_pc' = "finally"
            /\ UNCHANGED <<tr_audio_present, tr_task_notifications,
                           tr_error_notifications, tr_pushover>>
    /\ UNCHANGED <<tr_retry_limit, tr_retry_delay, tr_creds, tr_attempt,
                   tr_posts, tr_outcomes, tr_sleeps, tr_result,
                   tr_delete_after>>

\* TR_Cleared that keeps the lists
TR_Cleared_Kept(notifications) == notifications

\* task_notifications.clear(), error_notifications.clear()
TR_Cleared(notifications) == <<>>

\* the finally clause: send_grouped_pushover_notifications (d1, d2: how its
\* two Pushover POSTs end), then both lists are cleared; an exception of
\* the except clause or of a POST leaves process_file
TR_Finally(d1, d2) ==
    /\ tr_pc \in {"finally", "finally_exc"}
    /\ LET send_tasks == tr_task_notifications # <<>>
           push1 == IF send_tasks
                    THEN TR_PushoverLog(tr_pushover, tr_creds,
                                        "Transcription Task Summary", d1,
                                        tr_task_notifications)
                    ELSE tr_pushover
           err1 == IF send_tasks
                   THEN TR_PushoverErrors(tr_error_notifications, tr_creds, d1)
                   ELSE tr_error_notifications
       IN  IF send_tasks /\ TR_PushoverRaises(tr_creds, d1)
           THEN /\ tr_pushover' = push1
                /\ tr_pc' = "raised"
                /\ UNCHANGED <<tr_task_notifications, tr_error_notifications>>
           ELSE IF err1 # <<>> /\ TR_PushoverRaises(tr_creds, d2)
           THEN /\ tr_pushover' = TR_PushoverLog(push1, tr_creds,
                                       "Transcription Errors", d2, err1)
                /\ tr_error_notifications' = err1
                /\ tr_pc' = "raised"
                /\ UNCHANGED tr_task_notifications
           ELSE /\ tr_pushover' =
                       IF err1 # <<>>
                       THEN TR_PushoverLog(push1, tr_creds,
                                           "Transcription Errors", d2, err1)
                       ELSE push1
                /\ tr_task_notifications' = TR_Cleared(tr_task_notifications)
                /\ tr_error_notifications' =
                       TR_Cleared(tr_error_notifications)
                /\ tr_pc' = IF tr_pc = "finally_exc" THEN "raised" ELSE "done"
    /\ UNCHANGED <<tr_retry_limit, tr_retry_delay, tr_creds, tr_attempt,
                   tr_posts, tr_outcomes, tr_sleeps, tr_result,
                   tr_delete_after, tr_audio_present>>

TR_Start == \E o \in TR_BeginOutcomes, d \in TR_Ends : TR_Begin(o, d)

TR_Continue == \E rm_ok \in BOOLEAN, d \in TR_Ends : TR_AfterWebhook(rm_ok, d)

TR_End == \E d1 \in TR_Ends, d2 \in TR_Ends : TR_Finally(d1, d2)

TR_Fail == \E d \in TR_Ends : TR_GiveUp(d)

TR_Except == \E d \in TR_Ends : TR_Catch(d)

----------------------------------------------------------------------------
\* ttd_backup.py: send_pushover_notification and upload_file_to_ftp
\* (one time unit is 150 seconds)

\* rate_limit_seconds, fallback 300
pushover_rate_limit == 2

\* time.time() when the script starts; last_pushover_time = 0 is far back
BK_StartTime == 10

\* how one pass of the loop of upload_file_to_ftp ends:
\*   md5_local_exc   calculate_md5(local_file) raises (it alerts first)
\*   open_exc        open(local_file) raises
\*   stor_exc        ftp.storbinary raises
\*   download_exc    download_file_from_ftp raises (it alerts first)
\*   md5_remote_exc  calculate_md5(downloaded_file) raises (it alerts first)
\*   mismatch        the hashes differ
\*   mismatch_rm_exc the hashes differ and os.remove raises
\*   match_rm_exc    the hashes agree and os.remove raises
\*   match           the hashes agree
BK_Outcomes == {"md5_local_exc", "open_exc", "stor_exc", "download_exc",
                "md5_remote_exc", "mismatch", "mismatch_rm_exc",
                "match_rm_exc", "match"}

\* the outcomes that end before ftp.storbinary is called
BK_BeforeStor == {"md5_local_exc", "open_exc"}

\* the alert a helper sends before it re-raises
BK_AlertOf(o) ==
    CASE o = "md5_local_exc" -> <<"md5_failed">>
      [] o = "md5_remote_exc" -> <<"md5_failed">>
      [] o = "download_exc" -> <<"download_failed">>
      [] OTHER -> <<>>

\* no hash was computed
BK_NoHash == 0

\* the MD5 values tried
BK_Hashes == {1, 2}

\* no backup was named
BK_NoStamp == [y |-> 0, m |-> 0]

BK_Idle ==
    /\ bk_pc = "returned"
    /\ bk_retries = 0
    /\ bk_attempt = 0
    /\ bk_iterations = 0
    /\ bk_stors = 0
    /\ bk_prestor = 0
    /\ bk_result = "none"
    /\ bk_now = 0
    /\ last_pushover_time = 0
    /\ bk_pushover = <<>>
    /\ bk_http = 0
    /\ bk_local_md5 = BK_NoHash
    /\ bk_remote_md5 = BK_NoHash
    /\ bk_current = BK_NoStamp
    /\ bk_listing = {}
    /\ bk_popped = {}
    /\ bk_deleted = {}
    /\ bk_expired = {}
    /\ bk_main = "none"

\* main is about to enter its try block, nothing was notified yet
BK_Init ==
    /\ bk_pc = "main"
    /\ bk_retries \in 0..MaxFtpRetries
    /\ bk_attempt = 0
    /\ bk_iterations = 0
    /\ bk_stors = 0
    /\ bk_prestor = 0
    /\ bk_result = "none"
    /\ bk_now = BK_StartTime
    /\ last_pushover_time = 0
    /\ bk_pushover = <<>>
    /\ bk_http = 0
    /\ bk_local_md5 = BK_NoHash
    /\ bk_remote_md5 = BK_NoHash
    /\ bk_current = BK_NoStamp
    /\ bk_listing = {}
    /\ bk_popped = {}
    /\ bk_deleted = {}
    /\ bk_expired = {}
    /\ bk_main = "none"

\* BK_Suppressed that also suppresses at exactly the rate limit
BK_Suppressed_Inclusive(now, last) == now - last <= pushover_rate_limit

\* send_pushover_notification: is the call suppressed?
BK_Suppressed(now, last) == now - last < pushover_rate_limit

\* BK_LastAfter that stamps suppressed calls too
BK_LastAfter_Always(suppressed, now, last) == now

\* last_pushover_time after a call
BK_LastAfter(suppressed, now, last) == IF suppressed THEN last ELSE now

\* send_pushover_notification(msg) at time now, from n = [last:
\* last_pushover_time, http: the POSTs made, log: the calls made];
\* d: the POST succeeds
BK_Send(n, msg, now, d) ==
    LET suppressed == BK_Suppressed(now, n.last)
    IN  [last |-> BK_LastAfter(suppressed, now, n.last),
         http |-> IF suppressed THEN n.http ELSE n.http + 1,
         log |-> Append(n.log,
                    [msg |-> msg, at |-> now,
                     sent |-> IF suppressed THEN "suppressed"
                              ELSE IF d THEN "delivered" ELSE "failed"])]

\* send_pushover_notification for each message of msgs in turn
RECURSIVE BK_SendAll(_, _, _, _)
BK_SendAll(n, msgs, now, d) ==
    IF msgs = <<>> THEN n
    ELSE BK_SendAll(BK_Send(n, msgs[1], now, d), Tail(msgs), now, d)

\* the calls of send_pushover_notification for msgs, made at time now
BK_NotifyAt(msgs, now, d) ==
    LET n == BK_SendAll([last |-> last_pushover_time, http |-> bk_http,
                         log |-> bk_pushover], msgs, now, d)
    IN  /\ last_pushover_time' = n.last
        /\ bk_http' = n.http
        /\ bk_pushover' = n.log

\* send_pushover_notification for each message of msgs, now
BK_Notify(msgs, d) == BK_NotifyAt(msgs, bk_now, d)

\* how main gets to the upload:
\*   ok            it calls upload_file_to_ftp
\*   audio_exc     delete_audio_files raises
\*   compress_exc  compress_directory_to_zip raises (it alerts first)
\*   ftp_failed    connect_to_ftp returns None (it alerts first)
BK_Starts == {"ok", "audio_exc", "compress_exc", "ftp_failed"}

\* main up to the call of upload_file_to_ftp, with its `except Exception`
\* when a step raises
BK_Prepare(o, d) ==
    /\ bk_pc = "main"
    /\ bk_pc' = IF o = "ok" THEN "loop" ELSE "ending"
    /\ bk_main' = CASE o = "ok" -> "none"
                    [] o = "ftp_failed" -> "return"
                    [] OTHER -> "exception"
    /\ BK_Notify(CASE o = "ok" -> <<>>
                    [] o = "audio_exc" -> <<"critical_error">>
                    [] o = "compress_exc" ->
                           <<"compression_failed", "critical_error">>
                    [] o = "ftp_failed" -> <<"ftp_failed">>, d)
    /\ UNCHANGED <<bk_retries, bk_attempt, bk_iterations, bk_stors,
                   bk_prestor, bk_result, bk_now, bk_local_md5,
                   bk_remote_md5>>
    /\ UNCHANGED <<bk_current, bk_listing, bk_popped, bk_deleted, bk_expired>>

\* while attempt <= retries
BK_LoopCond(attempt, retries) == attempt <= retries

\* BK_Exhausted off by one
BK_Exhausted_Early(attempt, retries) == attempt >= retries

\* the checks after attempt += 1 that break out of the loop
\* (`if attempt <= retries: ... else: break`, `if attempt > retries: break`)
BK_Exhausted(attempt, retries) == attempt > retries

\* one pass of the while loop
BK_Attempt(o, d) ==
    /\ bk_pc = "loop"
    /\ BK_LoopCond(bk_attempt, bk_retries)
    /\ bk_iterations' = bk_iterations + 1
    /\ bk_stors' = IF o \in BK_BeforeStor THEN bk_stors ELSE bk_stors + 1
    /\ bk_prestor' = IF o \in BK_BeforeStor THEN bk_prestor + 1 ELSE bk_prestor
    /\ BK_Notify(BK_AlertOf(o), d)
    /\ IF o = "match"
       THEN /\ bk_result' = "True"
            /\ bk_pc' = "returned"
            /\ UNCHANGED bk_attempt
       ELSE /\ bk_attempt' = bk_attempt + 1
            /\ bk_pc' = IF BK_Exhausted(bk_attempt + 1, bk_retries)
                        THEN "failed" ELSE "loop"
            /\ UNCHANGED bk_result
    /\ UNCHANGED <<bk_retries, bk_now, bk_main>>

\* after the loop: the critical log, the alert, return False
BK_GiveUp(d) ==
    /\ bk_pc = "failed"
    /\ BK_Notify(<<"critical">>, d)
    /\ bk_result' = "False"
    /\ bk_pc' = "returned"
    /\ UNCHANGED <<bk_retries, bk_attempt, bk_iterations, bk_stors,
                   bk_prestor, bk_now, bk_local_md5, bk_remote_md5, bk_main>>
    /\ UNCHANGED <<bk_current, bk_listing, bk_popped, bk_deleted, bk_expired>>

\* time passes while the script works
BK_Tick ==
    /\ bk_pc \in {"loop", "failed"}
    /\ bk_now < BK_StartTime + MaxTicks
    /\ bk_now' = bk_now + 1
    /\ UNCHANGED <<bk_pc, bk_retries, bk_attempt, bk_iterations, bk_stors,
                   bk_prestor, bk_result, last_pushover_time, bk_pushover,
                   bk_http, bk_local_md5, bk_remote_md5, bk_main>>
    /\ UNCHANGED <<bk_current, bk_listing, bk_popped, bk_deleted, bk_expired>>

\* how far one pass of the loop gets: an exception at some statement,
\* or the comparison of the hashes followed by os.remove (rm_exc: it raises)
BK_Passes == {"md5_local_exc", "open_exc", "stor_exc", "download_exc",
              "md5_remote_exc", "rm_exc", "compared"}

\* BK_Verified that accepts every download
BK_Verified_Always(local_md5, remote_md5) == TRUE

\* if local_md5 == remote_md5
BK_Verified(local_md5, remote_md5) == local_md5 = remote_md5

\* the outcome of a pass that got as far as s with the hashes l (local
\* file) and r (downloaded file)
BK_Outcome(s, l, r) ==
    IF s = "compared"
    THEN IF BK_Verified(l, r) THEN "match" ELSE "mismatch"
    ELSE IF s = "rm_exc"
    THEN IF BK_Verified(l, r) THEN "match_rm_exc" ELSE "mismatch_rm_exc"
    ELSE s

\* one pass of the while loop with its hashes
BK_Pass(s, l, r, d) ==
    /\ BK_Attempt(BK_Outcome(s, l, r), d)
    /\ bk_local_md5' = IF s = "md5_local_exc" THEN BK_NoHash ELSE l
    /\ bk_remote_md5' = IF s \in {"rm_exc", "compared"} THEN r ELSE BK_NoHash
    /\ UNCHANGED <<bk_current, bk_listing, bk_popped, bk_deleted, bk_expired>>

\* when the backups tried were made (year, month)
BK_Stamps == {[y |-> 2024, m |-> 12], [y |-> 2025, m |-> 1]}

\* backup a was made before backup b
BK_Older(a, b) == a.y < b.y \/ (a.y = b.y /\ a.m < b.m)

\* 'TTD_Backup_' + strftime('%m-%d-%Y_%H-%M-%S') + '.zip': what orders two
\* names, the month first, then the year
BK_Name(s) == <<s.m, s.y>>

\* name a < name b as strings
BK_NameLess(a, b) == a[1] < b[1] \/ (a[1] = b[1] /\ a[2] < b[2])

\* retention_count
backup_retention_count == 1

\* the last element of sorted(backups, reverse=True), which pop() removes
BK_Last(backups) ==
    CHOOSE x \in backups :
        \A y \in backups \ {x} : BK_NameLess(BK_Name(x), BK_Name(y))

\* the backups the count rule pops
RECURSIVE BK_CountRule(_)
BK_CountRule(backups) ==
    IF Cardinality(backups) > backup_retention_count
    THEN {BK_Last(backups)} \cup BK_CountRule(backups \ {BK_Last(backups)})
    ELSE {}

\* the dates tried for now - retention_days (BK_NoStamp: nothing that old)
BK_Cutoffs == {BK_NoStamp, [y |-> 2025, m |-> 1]}

\* BK_RunsRetention without the test of the upload
BK_RunsRetention_Always(result) == TRUE

\* main: if upload_successful
BK_RunsRetention(result) == result = "True"

\* main after upload_file_to_ftp returned: manage_backup_retention when the
\* upload succeeded. cur: the backup of this run; olds: the older backups on
\* the server; denied: ftp.delete raises error_perm; cutoff: now -
\* retention_days; exc: ftp.cwd or ftp.nlst raises
BK_Retention(cur, olds, denied, cutoff, exc, d) ==
    /\ bk_pc = "returned"
    /\ bk_result # "none"
    /\ bk_pc' = "retained"
    /\ bk_current' = cur
    /\ IF ~BK_RunsRetention(bk_result)
       THEN /\ BK_Notify(<<>>, d)
            /\ UNCHANGED <<bk_listing, bk_popped, bk_deleted, bk_expired>>
       ELSE IF exc
       THEN /\ BK_Notify(<<"retention_failed">>, d)
            /\ UNCHANGED <<bk_listing, bk_popped, bk_deleted, bk_expired>>
       ELSE LET listing == olds \cup (IF bk_stors > 0 THEN {cur} ELSE {})
                popped == BK_CountRule(listing)
            IN  /\ bk_listing' = listing
                /\ bk_popped' = popped
                /\ bk_deleted' = IF denied THEN {} ELSE popped
                /\ bk_expired' = IF denied THEN {}
                                 ELSE {x \in listing \ popped :
                                          BK_Older(x, cutoff)}
                /\ BK_Notify(<<>>, d)
    /\ UNCHANGED <<bk_retries, bk_attempt, bk_iterations, bk_stors,
                   bk_prestor, bk_result, bk_now, bk_local_md5,
                   bk_remote_md5, bk_main>>

\* BK_FinalNotice that is sent only when nothing failed
BK_FinalNotice_Guarded(result, how) ==
    IF result = "True" /\ how = "end" THEN <<"completed">> ELSE <<>>

\* finally: send_pushover_notification("Backup script completed
\* successfully."), whatever upload_file_to_ftp returned and however the
\* try block was left
BK_FinalNotice(result, how) == <<"completed">>

\* the rest of main: perform_backup_verification when the upload succeeded
\* (v: it fails, and alerts), ftp.quit, manage_log_retention (lr: it
\* raises, `except Exception` alerts), then the finally clause; dt: the time
\* all of this took before the first of these alerts
BK_Finish(v, lr, dt, d) ==
    /\ bk_pc \in {"retained", "ending"}
    /\ bk_now + dt <= BK_StartTime + MaxTicks
    /\ bk_pc' = "done"
    /\ bk_now' = bk_now + dt
    /\ LET how == IF bk_pc = "ending" THEN bk_main
                  ELSE IF lr THEN "exception" ELSE "end"
           msgs == (IF bk_pc = "retained" /\ BK_RunsRetention(bk_result) /\ v
                    THEN <<"verification_failed">> ELSE <<>>)
                   \o (IF bk_pc = "retained" /\ lr
                       THEN <<"critical_error">> ELSE <<>>)
                   \o BK_FinalNotice(bk_result, how)
       IN  /\ bk_main' = how
           /\ BK_NotifyAt(msgs, bk_now + dt, d)
    /\ UNCHANGED <<bk_retries, bk_attempt, bk_iterations, bk_stors,
                   bk_prestor, bk_result, bk_local_md5, bk_remote_md5>>
    /\ UNCHANGED <<bk_current, bk_listing, bk_popped, bk_deleted, bk_expired>>

BK_Begin == \E o \in BK_Starts, d \in BOOLEAN : BK_Prepare(o, d)

BK_End == \E v \in BOOLEAN, lr \in BOOLEAN, dt \in 0..1, d \in BOOLEAN :
              BK_Finish(v, lr, dt, d)

BK_Upload == \E s \in BK_Passes, l \in BK_Hashes, r \in BK_Hashes,
                d \in BOOLEAN : BK_Pass(s, l, r, d)

BK_Fail == \E d \in BOOLEAN : BK_GiveUp(d)

BK_Retain == \E cur \in BK_Stamps, olds \in SUBSET BK_Stamps,
                cutoff \in BK_Cutoffs, denied \in BOOLEAN, exc \in BOOLEAN,
                d \in BOOLEAN :
                /\ \A o \in olds : BK_Older(o, cur)
                /\ BK_Retention(cur, olds, denied, cutoff, exc, d)

----------------------------------------------------------------------------
\* ttd_heartbeat_monitor.py: send_alert, start_external_script,
\* graceful_shutdown and the main loop

\* last_alert_time = None
HB_None == -1

\* the 5-minute cooldown of send_alert
HB_Cooldown == 300

\* start_external_script: retries
HB_Retries == 3

\* start_external_script: time.sleep(5) between attempts
HB_RetrySleep == 5

\* the check_interval settings tried
HB_CheckIntervals == {20, 150}

\* no threshold in the configuration
HB_Unset == -1

\* the threshold settings tried
HB_Thresholds == {HB_Unset, 30, 100}

\* min_threshold
HB_MinThreshold == 60

\* int(check_interval * 1.5)
HB_DefaultThreshold(interval) == (3 * interval) \div 2

\* HB_Threshold without the floor
HB_Threshold_NoFloor(configured, interval) ==
    IF configured = HB_Unset THEN HB_DefaultThreshold(interval)
    ELSE configured

\* heartbeat_threshold: getint('threshold', default), then max(., 60)
HB_Threshold(configured, interval) ==
    LET t == IF configured = HB_Unset THEN HB_DefaultThreshold(interval)
             ELSE configured
    IN  IF t > HB_MinThreshold THEN t ELSE HB_MinThreshold

\* nothing was read from the heartbeat file in this pass of the loop
HB_NoFile == [kind |-> "none", age |-> 0]

\* the ages (time_diff, seconds) of the heartbeat tried
HB_Ages == {60, 61, 226}

\* what check_heartbeat may find: no file, a file that does not hold a
\* number, a file that cannot be read, a file that holds "nan" or "inf", a
\* heartbeat of some age
HB_Files ==
    {[kind |-> k, age |-> 0] :
        k \in {"missing", "invalid", "error", "nan", "inf"}}
    \cup {[kind |-> "age", age |-> a] : a \in HB_Ages}

\* the exception the try body of check_heartbeat raises: open() raises
\* FileNotFoundError or another OSError, float() raises ValueError on text,
\* int() raises ValueError on nan and OverflowError on inf
HB_Raised(f) ==
    CASE f.kind = "missing" -> "FileNotFoundError"
      [] f.kind = "invalid" -> "ValueError"
      [] f.kind = "nan" -> "ValueError"
      [] f.kind = "inf" -> "OverflowError"
      [] f.kind = "error" -> "OSError"
      [] OTHER -> "none"

\* HB_Caught without the `except Exception` clause
HB_Caught_Named(e) == e \in {"FileNotFoundError", "ValueError"}

\* the except clauses of check_heartbeat: FileNotFoundError, ValueError,
\* Exception
HB_Caught(e) ==
    e \in {"FileNotFoundError", "ValueError", "OverflowError", "OSError"}

\* check_heartbeat: its return value
check_heartbeat(f, threshold) == f.kind = "age" /\ ~(f.age > threshold)

\* how the two POSTs of an alert may end: both succeed, both fail
HB_Deliveries == {[webhook |-> b, pushover |-> b] : b \in BOOLEAN}

\* the step sent no alert
HB_NoDelivery == [webhook |-> TRUE, pushover |-> TRUE]

HB_Idle ==
    /\ hb_pc = "off"
    /\ check_interval = 60
    /\ enable_rate_limiting = TRUE
    /\ enable_restart_notifications = TRUE
    /\ hb_now = 0
    /\ last_alert_time = HB_None
    /\ hb_alerts = <<>>
    /\ hb_last_delivery = HB_NoDelivery
    /\ hb_webhook_posts = 0
    /\ hb_pushover_posts = 0
    /\ hb_attempt = 0
    /\ hb_runs = 0
    /\ hb_polls = 0
    /\ hb_episode_starts = 0
    /\ hb_threshold = HB_Unset
    /\ heartbeat_threshold = HB_MinThreshold
    /\ hb_heartbeat = HB_NoFile
    /\ hb_interval_sleeps = 0
    /\ hb_run_outcomes = <<>>
    /\ hb_retry_sleeps = 0

\* the handlers are installed, the main loop is at check_heartbeat
HB_Init ==
    /\ hb_pc = "poll"
    /\ check_interval \in HB_CheckIntervals
    /\ enable_rate_limiting \in BOOLEAN
    /\ enable_restart_notifications \in BOOLEAN
    /\ hb_now = 0
    /\ last_alert_time = HB_None
    /\ hb_alerts = <<>>
    /\ hb_last_delivery = HB_NoDelivery
    /\ hb_webhook_posts = 0
    /\ hb_pushover_posts = 0
    /\ hb_attempt = 0
    /\ hb_runs = 0
    /\ hb_polls = 0
    /\ hb_episode_starts = 0
    /\ hb_threshold \in HB_Thresholds
    /\ heartbeat_threshold = HB_Threshold(hb_threshold, check_interval)
    /\ hb_heartbeat = HB_NoFile
    /\ hb_interval_sleeps = 0
    /\ hb_run_outcomes = <<>>
    /\ hb_retry_sleeps = 0

\* HB_ApplyRateLimit without the exemption of relaunch_success
HB_ApplyRateLimit_All(enable, relaunch_success) == enable

\* apply_rate_limit = enable_rate_limiting and not relaunch_success
HB_ApplyRateLimit(enable, relaunch_success) == enable /\ ~relaunch_success

\* the condition under which send_alert sends
HB_Delivers(apply, last, now) ==
    ~apply \/ last = HB_None \/ now - last > HB_Cooldown

\* send_alert(message, relaunch_success); w, p: the webhook POST and the
\* Pushover POST succeed
HB_SendAlert(msg, relaunch_success, w, p) ==
    LET deliver == HB_Delivers(HB_ApplyRateLimit(enable_rate_limiting,
                                                 relaunch_success),
                               last_alert_time, hb_now)
    IN  /\ last_alert_time' = IF deliver THEN hb_now ELSE last_alert_time
        /\ hb_webhook_posts' = IF deliver THEN hb_webhook_posts + 1
                               ELSE hb_webhook_posts
        /\ hb_pushover_posts' = IF deliver THEN hb_pushover_posts + 1
                                ELSE hb_pushover_posts
        /\ hb_last_delivery' = IF deliver
                               THEN [webhook |-> w, pushover |-> p]
                               ELSE HB_NoDelivery
        /\ hb_alerts' = Append(hb_alerts,
               [msg |-> msg, at |-> hb_now,
                relaunch_success |-> relaunch_success, sent |-> deliver])

\* send_alert is not called
HB_NoAlert ==
    /\ hb_last_delivery' = HB_NoDelivery
    /\ UNCHANGED <<last_alert_time, hb_webhook_posts, hb_pushover_posts,
                   hb_alerts>>

\* one pass of the main loop up to its sleeps: check_heartbeat (f: what it
\* finds) and, when it returns False, the alert
HB_Poll(f, w, p) ==
    /\ hb_pc = "poll"
    /\ hb_polls < HB_MaxPolls
    /\ hb_polls' = hb_polls + 1
    /\ hb_heartbeat' = f
    /\ hb_interval_sleeps' = 0
    /\ IF HB_Raised(f) # "none" /\ ~HB_Caught(HB_Raised(f))
       THEN /\ HB_NoAlert
            /\ hb_pc' = "crashed"
            /\ UNCHANGED hb_episode_starts
       ELSE IF check_heartbeat(f, heartbeat_threshold)
       THEN /\ HB_NoAlert
            /\ hb_episode_starts' = 0
            /\ hb_pc' = "sleep"
       ELSE /\ HB_SendAlert("heartbeat_missed", FALSE, w, p)
            /\ hb_pc' = "restart"
            /\ UNCHANGED hb_episode_starts
    /\ hb_attempt' = 0
    /\ hb_run_outcomes' = <<>>
    /\ hb_retry_sleeps' = 0
    /\ UNCHANGED <<hb_threshold, heartbeat_threshold>>
    /\ UNCHANGED <<check_interval, enable_rate_limiting,
                   enable_restart_notifications, hb_now, hb_runs>>

\* how subprocess.run ends: return code 0, another return code, an exception
HB_RunOutcomes == {"zero", "nonzero", "exc"}

\* HB_Retrying that never leaves the loop
HB_Retrying_Always(attempt) == TRUE

\* if attempt < retries - 1: another pass follows
HB_Retrying(attempt) == attempt < HB_Retries - 1

\* HB_Succeeded that takes any run that did not raise for a success
HB_Succeeded_AnyExit(o) == o # "exc"

\* if process.returncode == 0
HB_Succeeded(o) == o = "zero"

\* one pass of the loop of start_external_script
HB_RunScript(o, w, p) ==
    /\ hb_pc = "restart"
    /\ hb_attempt < HB_Retries
    /\ hb_runs' = hb_runs + 1
    /\ hb_episode_starts' = IF hb_attempt = 0 THEN hb_episode_starts + 1
                            ELSE hb_episode_starts
    /\ IF o = "exc"
       THEN HB_SendAlert("restart_error", FALSE, w, p)
       ELSE IF ~enable_restart_notifications
       THEN HB_NoAlert
       ELSE IF HB_Succeeded(o)
       THEN HB_SendAlert("restarted", TRUE, w, p)
       ELSE HB_SendAlert("restart_failed", FALSE, w, p)
    /\ hb_run_outcomes' = Append(hb_run_outcomes, o)
    /\ IF HB_Succeeded(o)
       THEN /\ hb_pc' = "sleep_extra"
            /\ UNCHANGED <<hb_attempt, hb_now, hb_retry_sleeps>>
       ELSE /\ hb_attempt' = hb_attempt + 1
            /\ IF HB_Retrying(hb_attempt)
               THEN /\ hb_now' = hb_now + HB_RetrySleep
                    /\ hb_retry_sleeps' = hb_retry_sleeps + 1
                    /\ hb_pc' = "restart"
               ELSE /\ hb_pc' = "sleep_extra"
                    /\ UNCHANGED <<hb_now, hb_retry_sleeps>>
    /\ hb_heartbeat' = HB_NoFile
    /\ UNCHANGED <<hb_threshold, heartbeat_threshold>>
    /\ UNCHANGED <<check_interval, enable_rate_limiting,
                   enable_restart_notifications, hb_polls,
                   hb_interval_sleeps>>

\* time.sleep(check_interval) in the branch of the missed heartbeat
HB_ExtraSleep ==
    /\ hb_pc = "sleep_extra"
    /\ hb_now' = hb_now + check_interval
    /\ hb_interval_sleeps' = hb_interval_sleeps + 1
    /\ hb_heartbeat' = HB_NoFile
    /\ hb_pc' = "sleep"
    /\ HB_NoAlert
    /\ UNCHANGED <<hb_threshold, heartbeat_threshold>>
    /\ UNCHANGED <<check_interval, enable_rate_limiting,
                   enable_restart_notifications, hb_attempt, hb_runs,
                   hb_polls, hb_episode_starts, hb_run_outcomes,
                   hb_retry_sleeps>>

\* time.sleep(check_interval) and cleanup_logs at the end of the loop body
HB_Sleep ==
    /\ hb_pc = "sleep"
    /\ hb_now' = hb_now + check_interval
    /\ hb_interval_sleeps' = hb_interval_sleeps + 1
    /\ hb_heartbeat' = HB_NoFile
    /\ hb_pc' = "poll"
    /\ HB_NoAlert
    /\ UNCHANGED <<hb_threshold, heartbeat_threshold>>
    /\ UNCHANGED <<check_interval, enable_rate_limiting,
                   enable_restart_notifications, hb_attempt, hb_runs,
                   hb_polls, hb_episode_starts, hb_run_outcomes,
                   hb_retry_sleeps>>

\* graceful_shutdown on SIGINT or SIGTERM: the alert, cleanup, sys.exit(0)
HB_Signal(w, p) ==
    /\ hb_pc \notin {"off", "exit", "crashed"}
    /\ HB_SendAlert("shutdown", FALSE, w, p)
    /\ hb_pc' = "exit"
    /\ UNCHANGED <<hb_threshold, heartbeat_threshold>>
    /\ UNCHANGED <<check_interval, enable_rate_limiting,
                   enable_restart_notifications, hb_now, hb_attempt, hb_runs,
                   hb_polls, hb_episode_starts, hb_heartbeat,
                   hb_interval_sleeps, hb_run_outcomes, hb_retry_sleeps>>

HB_Check == \E f \in HB_Files, d \in HB_Deliveries :
                HB_Poll(f, d.webhook, d.pushover)

HB_Restart == \E o \in HB_RunOutcomes, d \in HB_Deliveries :
                  HB_RunScript(o, d.webhook, d.pushover)

HB_Shutdown == \E d \in HB_Deliveries : HB_Signal(d.webhook, d.pushover)

----------------------------------------------------------------------------
\* ttd_pre_notification.py: cleanup_logs, called once when the script starts

\* the age of the log file of this run, which was just created
CL_Current == 0

\* the ages tried for the other files of log_dir
CL_Ages == {1, 2, 3, 6}

\* the max_logs settings tried
CL_MaxLogs == {1, 2, 3}

\* the max_log_days settings tried
CL_MaxLogDays == {2, 5}

CL_Idle ==
    /\ cl_pc = "off"
    /\ cl_others = {}
    /\ max_logs = 0
    /\ max_log_days = 0
    /\ cl_aged = {}
    /\ cl_excess = {}
    /\ cl_kept = {}

\* logging is configured, cleanup_logs is about to be called
CL_Init ==
    /\ cl_pc = "start"
    /\ cl_others \in SUBSET CL_Ages
    /\ max_logs \in CL_MaxLogs
    /\ max_log_days \in CL_MaxLogDays
    /\ cl_aged = {}
    /\ cl_excess = {}
    /\ cl_kept = cl_others \cup {CL_Current}

\* CL_Before with reverse=True
CL_Before_Reversed(a, b) == a > b

\* logs.sort(key=lambda x: x[1], reverse=False): the file of age a comes
\* before the file of age b
CL_Before(a, b) == a < b

\* the sorted list of the files
RECURSIVE CL_Sort(_)
CL_Sort(files) ==
    IF files = {} THEN <<>>
    ELSE LET first == CHOOSE x \in files :
                          \A y \in files \ {x} : CL_Before(x, y)
         IN  <<first>> \o CL_Sort(files \ {first})

\* if file_age > max_log_days * 86400, the log file of this run skipped
CL_AgeRule(files, days) == {a \in files \ {CL_Current} : a > days}

\* if len(logs) > max_logs: the first len(logs) - max_logs entries of the
\* list are removed, the log file of this run skipped
CL_CountRule(logs, limit) ==
    IF Len(logs) > limit
    THEN {logs[i] : i \in 1..(Len(logs) - limit)} \ {CL_Current}
    ELSE {}

\* cleanup_logs
CL_Cleanup ==
    /\ cl_pc = "start"
    /\ LET logs == CL_Sort(cl_others \cup {CL_Current})
           aged == CL_AgeRule(cl_others \cup {CL_Current}, max_log_days)
           left == SelectSeq(logs, LAMBDA a : a \notin aged)
           excess == CL_CountRule(left, max_logs)
       IN  /\ cl_aged' = aged
           /\ cl_excess' = excess
           /\ cl_kept' = ((cl_others \cup {CL_Current}) \ aged) \ excess
    /\ cl_pc' = "done"
    /\ UNCHANGED <<cl_others, max_logs, max_log_days>>

----------------------------------------------------------------------------
\* ttd_program_starter.py: start_program

PS_Idle ==
    /\ ps_pc = "off"
    /\ ps_runs = 0
    /\ ps_sleeps = 0
    /\ ps_alerts = <<>>

\* main has set up logging and signal handling and calls start_program
PS_Init ==
    /\ ps_pc = "start"
    /\ ps_runs = 0
    /\ ps_sleeps = 0
    /\ ps_alerts = <<>>

\* how subprocess.run ends: return code 0, another return code, an exception
PS_RunOutcomes == {"zero", "nonzero", "exc"}

\* start_program: one subprocess.run, and send_alert when the return code
\* is not 0 (d: the Pushover POST succeeds); an exception of subprocess.run
\* is not caught
PS_StartProgram(o, d) ==
    /\ ps_pc = "start"
    /\ ps_runs' = ps_runs + 1
    /\ ps_pc' = IF o = "exc" THEN "raised" ELSE "done"
    /\ ps_alerts' = IF o = "nonzero"
                    THEN Append(ps_alerts, [delivered |-> d])
                    ELSE ps_alerts
    /\ UNCHANGED ps_sleeps

PS_Start == \E o \in PS_RunOutcomes, d \in BOOLEAN : PS_StartProgram(o, d)

----------------------------------------------------------------------------
\* One run of one script.

Init ==
    \/ PN_Init /\ Old_Idle /\ TR_Idle /\ BK_Idle /\ HB_Idle /\ CL_Idle /\ PS_Idle
    \/ PN_Idle /\ Old_Init /\ TR_Idle /\ BK_Idle /\ HB_Idle /\ CL_Idle /\ PS_Idle
    \/ PN_Idle /\ Old_Idle /\ TR_Init /\ BK_Idle /\ HB_Idle /\ CL_Idle /\ PS_Idle
    \/ PN_Idle /\ Old_Idle /\ TR_Idle /\ BK_Init /\ HB_Idle /\ CL_Idle /\ PS_Idle
    \/ PN_Idle /\ Old_Idle /\ TR_Idle /\ BK_Idle /\ HB_Init /\ CL_Idle /\ PS_Idle
    \/ PN_Idle /\ Old_Idle /\ TR_Idle /\ BK_Idle /\ HB_Idle /\ CL_Init /\ PS_Idle
    \/ PN_Idle /\ Old_Idle /\ TR_Idle /\ BK_Idle /\ HB_Idle /\ CL_Idle /\ PS_Init

PN_Frame ==
    UNCHANGED <<old_vars, tr_vars, bk_vars, hb_vars, cl_vars, ps_vars>>

Old_Frame ==
    UNCHANGED <<pn_vars, tr_vars, bk_vars, hb_vars, cl_vars, ps_vars>>

TR_Frame ==
    UNCHANGED <<pn_vars, old_vars, bk_vars, hb_vars, cl_vars, ps_vars>>

BK_Frame ==
    UNCHANGED <<pn_vars, old_vars, tr_vars, hb_vars, cl_vars, ps_vars>>

HB_Frame ==
    UNCHANGED <<pn_vars, old_vars, tr_vars, bk_vars, cl_vars, ps_vars>>

CL_Frame ==
    UNCHANGED <<pn_vars, old_vars, tr_vars, bk_vars, hb_vars, ps_vars>>

PS_Frame ==
    UNCHANGED <<pn_vars, old_vars, tr_vars, bk_vars, hb_vars, cl_vars>>

Next ==
    \/ PN_Post /\ PN_Frame
    \/ PN_GiveUp /\ PN_Frame
    \/ PN_Main /\ PN_Frame
    \/ Old_Post /\ Old_Frame
    \/ Old_Fail /\ Old_Frame
    \/ Old_Main /\ Old_Frame
    \/ TR_Start /\ TR_Frame
    \/ TR_Post /\ TR_Frame
    \/ TR_LoopExit /\ TR_Frame
    \/ TR_Fail /\ TR_Frame
    \/ TR_Except /\ TR_Frame
    \/ TR_Continue /\ TR_Frame
    \/ TR_End /\ TR_Frame
    \/ BK_Begin /\ BK_Frame
    \/ BK_Upload /\ BK_Frame
    \/ BK_Fail /\ BK_Frame
    \/ BK_Tick /\ BK_Frame
    \/ BK_Retain /\ BK_Frame
    \/ BK_End /\ BK_Frame
    \/ HB_Check /\ HB_Frame
    \/ HB_Restart /\ HB_Frame
    \/ HB_ExtraSleep /\ HB_Frame
    \/ HB_Sleep /\ HB_Frame
    \/ HB_Shutdown /\ HB_Frame
    \/ CL_Cleanup /\ CL_Frame
    \/ PS_Start /\ PS_Frame

Spec == Init /\ [][Next]_vars

\* the main loop of the heartbeat monitor is sequential code: the step it is
\* at is eventually taken (subprocess.run and time.sleep return)
HB_Fairness ==
    /\ WF_vars(HB_Restart /\ HB_Frame)
    /\ WF_vars(HB_ExtraSleep /\ HB_Frame)
    /\ WF_vars(HB_Sleep /\ HB_Frame)

FairSpec == Spec /\ HB_Fairness

----------------------------------------------------------------------------
\* Properties.

\* no POST of the log succeeded
AllFail(outcomes) == \A i \in 1..Len(outcomes) : outcomes[i] # "ok"

\* the log holds a successful POST
SomeOk(outcomes) == \E i \in 1..Len(outcomes) : outcomes[i] = "ok"

\* the alerts of the given kinds
AlertsOfKind(alerts, kinds) ==
    Cardinality({i \in 1..Len(alerts) : alerts[i].kind \in kinds})

SuccessStops(outcomes, posts, sleeps, result, final_alerts) ==
    SomeOk(outcomes) =>
        /\ result = "True"
        /\ posts = Len(outcomes)
        /\ \A i \in 1..Len(outcomes) : outcomes[i] = "ok" <=> i = Len(outcomes)
        /\ Len(sleeps) = Len(outcomes) - 1
        /\ \A i \in 1..Len(sleeps) : sleeps[i].attempt = i
        /\ final_alerts = 0

\* C2: in the three scripts, once a POST succeeded (attempt k after k-1
\* failures) send_webhook has returned True, attempt k is the last POST, no
\* sleep follows it and no final-failure alert is sent.
C2_SuccessReturnsAtOnce ==
    /\ SuccessStops(pn_outcomes, pn_posts, pn_sleeps, pn_result, pn_alerts)
    /\ SuccessStops(tr_outcomes, tr_posts, tr_sleeps, tr_result,
                    Cardinality({i \in 1..Len(tr_pushover) :
                                    tr_pushover[i].title = "Webhook Failed"})
                    + CountIn(tr_error_notifications, {"webhook_failed"}))
    /\ SuccessStops(old_outcomes, old_posts, old_sleeps, old_result,
                    AlertsOfKind(old_alerts, {"final"}))

C2_Witness ==
    /\ old_outcomes = <<"conn", "http", "ok">>
    /\ old_result = "True"
    /\ old_pc = "exit"
    /\ Len(old_sleeps) = 2

\* C3 as stated: upload_file_to_ftp never calls STOR more than R+1 times,
\* and when it returns False it has called it exactly R+1 times.
C3_StorExactlyRPlus1 ==
    /\ bk_stors <= bk_retries + 1
    /\ bk_result = "False" => bk_stors = bk_retries + 1

\* C3 amended: upload_file_to_ftp never calls STOR more than R+1 times; when
\* it returns False it has made exactly R+1 passes of its loop, and called
\* STOR in each of them but those that failed before the transfer.
C3_AttemptsExactlyRPlus1 ==
    /\ bk_stors <= bk_retries + 1
    /\ bk_iterations <= bk_retries + 1
    /\ bk_pc = "loop" /\ bk_result = "none" /\ bk_retries >= 0 =>
           bk_iterations = bk_attempt
    /\ bk_result = "False" =>
           /\ bk_iterations = bk_retries + 1
           /\ bk_stors = bk_retries + 1 - bk_prestor

C3_Witness ==
    /\ bk_retries = 1
    /\ bk_result = "False"
    /\ bk_prestor = 1
    /\ bk_stors = 1

\* C4: in ttd_pre_notification.send_webhook the wait after failed attempt n
\* of class Timeout, HTTPError or other RequestException is
\* initial_backoff * backoff_multiplier^(n-1), whatever failed before.
C4_WaitByAttemptNumber ==
    \A i \in 1..Len(pn_sleeps) :
        pn_sleeps[i].cls \in ExpClasses =>
            pn_sleeps[i].wait =
                pn_initial_backoff *
                    Pow(pn_backoff_multiplier, pn_sleeps[i].attempt - 1)

\* C5: with backoff_multiplier >= 1 and initial_backoff >= 0 the waits slept
\* after Timeout / HTTPError / other RequestException failures of one
\* send_webhook call of ttd_pre_notification never decrease.
C5_ExponentialWaitsNonDecreasing ==
    (pn_backoff_multiplier >= 1 /\ pn_initial_backoff >= 0) =>
        LET e == SelectCls(pn_sleeps, ExpClasses)
        IN  \A i \in 1..(Len(e) - 1) : e[i + 1].wait >= e[i].wait

C5_Witness ==
    /\ pn_backoff_multiplier = 2
    /\ pn_outcomes = <<"timeout", "conn", "http">>
    /\ Waits(pn_sleeps) = <<5, 1, 10>>

\* a ConnectionError pass of the loop: backoff_time is kept, and unless it
\* was the last attempt exactly one sleep of 1 second is added
ConnStep(outcomes, outcomes2, attempt, retries, backoff, backoff2,
         sleeps, sleeps2) ==
    outcomes2 = Append(outcomes, "conn") =>
        /\ backoff2 = backoff
        /\ IF attempt < retries - 1
           THEN sleeps2 = Append(sleeps, [attempt |-> attempt + 1,
                                          cls |-> "conn", wait |-> 1])
           ELSE sleeps2 = sleeps

C7_ConnectionWaitConstant ==
    \A i, j \in 1..Len(tr_sleeps) :
        (tr_sleeps[i].cls = "conn" /\ tr_sleeps[j].cls = "conn") =>
            tr_sleeps[i].wait = tr_sleeps[j].wait

\* the end-to-end scenario: 3 attempts, Timeout, Timeout, success
Scenario(retries, outcomes, sleeps, posts, result) ==
    (retries = 3 /\ outcomes = <<"timeout", "timeout", "ok">>) =>
        /\ Waits(sleeps) = <<5, 10>>
        /\ posts = 3
        /\ result = "True"

\* C8: with 3 attempts, initial backoff 5 and multiplier 2, Timeout on
\* attempts 1 and 2 and success on attempt 3, send_webhook of part_000 and
\* of ttd_pre_notification sleeps [5, 10], issues 3 POSTs and returns True.
C8_EndToEndScenario ==
    /\ (pn_initial_backoff = 5 /\ pn_backoff_multiplier = 2) =>
           Scenario(pn_retries, pn_outcomes, pn_sleeps, pn_posts, pn_result)
    /\ Scenario(old_retries, old_outcomes, old_sleeps, old_posts, old_result)

C8_Witness ==
    /\ pn_initial_backoff = 5
    /\ pn_backoff_multiplier = 2
    /\ pn_retries = 3
    /\ pn_outcomes = <<"timeout", "timeout", "ok">>
    /\ pn_result = "True"

\* C9: in part_000 every failed attempt has sent exactly one per-attempt
\* alert, and the final alert is sent exactly once when all attempts failed
\* and not at all otherwise.
C9_OneAlertPerFailedAttempt ==
    /\ AlertsOfKind(old_alerts, PN_Failures) = CountIn(old_outcomes, PN_Failures)
    /\ AlertsOfKind(old_alerts, {"final"}) =
           (IF old_result = "False" THEN 1 ELSE 0)
    /\ old_result = "False" =>
           (AllFail(old_outcomes) /\ Len(old_outcomes) = old_retries)

\* C10: a run of ttd_pre_notification whose send_webhook(retries >= 1)
\* returned False ends with exactly one alert sent through
\* send_error_notification.
C10_TerminalFailureAlerts ==
    (pn_pc = "exit" /\ pn_retries >= 1 /\ pn_result = "False") =>
        pn_alerts = 1

\* the Pushover alerts whose text carries the given message
AlertsCarrying(pushover, what) ==
    {i \in 1..Len(pushover) :
        \E j \in 1..Len(pushover[i].body) : pushover[i].body[j] = what}

\* C11: when send_webhook of ttd_transcribed gave up inside process_file
\* (Pushover configured, every alert delivered), the finished process_file
\* has sent exactly one alert reporting that failure, the "Webhook Failed"
\* alert.
C11_OneAlertForWebhookFailure ==
    (/\ tr_pc = "done" /\ tr_creds /\ tr_retry_limit >= 1
     /\ tr_result = "False"
     /\ \A i \in 1..Len(tr_pushover) : tr_pushover[i].delivered)
        =>
        /\ Cardinality(AlertsCarrying(tr_pushover, "webhook_failed")) = 1
        /\ \A i \in AlertsCarrying(tr_pushover, "webhook_failed") :
               tr_pushover[i].title = "Webhook Failed"

\* C19: in ttd_transcribed no Pushover alert is attempted because of a failed
\* Pushover delivery: every "Transcription Errors" alert carries an error
\* other than the delivery failures.
C19_PushoverFailureOnlyLogged ==
    \A i \in 1..Len(tr_pushover) :
        tr_pushover[i].title = "Transcription Errors" =>
            \E j \in 1..Len(tr_pushover[i].body) :
                tr_pushover[i].body[j] # "pushover_failed"

\* call i of the log was not suppressed and every call between i and j was
Adjacent(log, i, j) ==
    /\ i < j
    /\ log[i].sent # "suppressed"
    /\ \A k \in (i + 1)..(j - 1) : log[k].sent = "suppressed"

\* C12: in ttd_backup, of two calls of send_pushover_notification of which
\* the first was delivered and no call between them was, the second makes no
\* HTTP request when they are less than pushover_rate_limit apart and makes
\* one otherwise; the first call of a run always makes one.
C12_BackupCooldown ==
    /\ \A i \in 1..Len(bk_pushover), j \in 1..Len(bk_pushover) :
          (Adjacent(bk_pushover, i, j) /\ bk_pushover[i].sent = "delivered") =>
              (bk_pushover[j].sent = "suppressed" <=>
                  bk_pushover[j].at - bk_pushover[i].at < pushover_rate_limit)
    /\ bk_pushover # <<>> => bk_pushover[1].sent # "suppressed"
    /\ bk_http = Cardinality({i \in 1..Len(bk_pushover) :
                                 bk_pushover[i].sent # "suppressed"})

C12_Witness ==
    /\ Len(bk_pushover) = 3
    /\ bk_pushover[1].sent = "delivered"
    /\ bk_pushover[2].sent = "suppressed"
    /\ bk_pushover[2].at = bk_pushover[1].at + 1
    /\ bk_pushover[3].sent # "suppressed"
    /\ bk_pushover[3].at = bk_pushover[1].at + pushover_rate_limit
    /\ bk_http = 2

\* C15: when upload_file_to_ftp has given up, its final critical alert was
\* not suppressed.
C15_CriticalAlertNotSuppressed ==
    bk_result = "False" =>
        \E i \in 1..Len(bk_pushover) :
            /\ bk_pushover[i].msg = "critical"
            /\ bk_pushover[i].sent # "suppressed"

\* alert i of the heartbeat monitor's log was sent and no alert between i and
\* j was
HB_Adjacent(log, i, j) ==
    /\ i < j
    /\ log[i].sent
    /\ \A k \in (i + 1)..(j - 1) : ~log[k].sent

\* C13: in the heartbeat monitor with rate limiting enabled, of two
\* suppressible send_alert calls of which the first was sent and no alert
\* between them was, the second is sent exactly when they are at least
\* HB_Cooldown seconds apart.
C13_HeartbeatCooldown ==
    enable_rate_limiting =>
        \A i \in 1..Len(hb_alerts), j \in 1..Len(hb_alerts) :
            (/\ HB_Adjacent(hb_alerts, i, j)
             /\ ~hb_alerts[i].relaunch_success
             /\ ~hb_alerts[j].relaunch_success) =>
                (hb_alerts[j].sent <=>
                    hb_alerts[j].at - hb_alerts[i].at >= HB_Cooldown)

\* a send_alert call has just been logged
HB_Called == Len(hb_alerts') = Len(hb_alerts) + 1

\* C14: every send_alert(relaunch_success=True) posts to the webhook and to
\* Pushover and sets last_alert_time to the current time, whatever
\* last_alert_time was.
C14_RelaunchSuccessAlwaysSent ==
    [][(HB_Called /\ hb_alerts'[Len(hb_alerts')].relaunch_success) =>
          /\ hb_alerts'[Len(hb_alerts')].sent
          /\ hb_webhook_posts' = hb_webhook_posts + 1
          /\ hb_pushover_posts' = hb_pushover_posts + 1
          /\ last_alert_time' = hb_now]_vars

C14_Witness ==
    /\ enable_rate_limiting
    /\ Len(hb_alerts) = 2
    /\ hb_alerts[1].sent
    /\ hb_alerts[2].relaunch_success
    /\ hb_alerts[2].at = hb_alerts[1].at
    /\ hb_alerts[2].sent
    /\ last_alert_time = hb_alerts[2].at
    /\ hb_webhook_posts = 2
    /\ hb_pushover_posts = 2

\* C16: when the heartbeat monitor has exited on a signal, it has issued one
\* shutdown alert and that alert was sent.
C16_ShutdownAlertSent ==
    hb_pc = "exit" =>
        /\ Cardinality({i \in 1..Len(hb_alerts) :
                           hb_alerts[i].msg = "shutdown"}) = 1
        /\ hb_alerts[Len(hb_alerts)].msg = "shutdown"
        /\ hb_alerts[Len(hb_alerts)].sent

\* a send_pushover_notification call of ttd_backup has just been logged
BK_Called == Len(bk_pushover') = Len(bk_pushover) + 1

\* C17: a suppressed alert call of ttd_backup or of the heartbeat monitor
\* leaves the cooldown timestamp as it was and makes no HTTP request.
C17_SuppressedCallChangesNothing ==
    [][/\ (BK_Called /\ bk_pushover'[Len(bk_pushover')].sent = "suppressed")
           => /\ last_pushover_time' = last_pushover_time
              /\ bk_http' = bk_http
       /\ (HB_Called /\ ~hb_alerts'[Len(hb_alerts')].sent)
           => /\ last_alert_time' = last_alert_time
              /\ hb_webhook_posts' = hb_webhook_posts
              /\ hb_pushover_posts' = hb_pushover_posts]_vars

C17_Witness ==
    /\ Len(hb_alerts) >= 2
    /\ ~hb_alerts[Len(hb_alerts)].sent
    /\ last_alert_time # HB_None
    /\ last_alert_time < hb_alerts[Len(hb_alerts)].at
    /\ hb_webhook_posts < Len(hb_alerts)

\* C18: an alert call that is not suppressed but whose HTTP delivery fails
\* leaves last_pushover_time / last_alert_time as it was.
C18_FailedDeliveryKeepsTimestamp ==
    [][/\ (BK_Called /\ bk_pushover'[Len(bk_pushover')].sent = "failed")
           => last_pushover_time' = last_pushover_time
       /\ (/\ HB_Called
           /\ hb_alerts'[Len(hb_alerts')].sent
           /\ ~hb_last_delivery'.webhook
           /\ ~hb_last_delivery'.pushover)
           => last_alert_time' = last_alert_time]_vars

\* C20: since check_heartbeat last returned True, start_external_script was
\* invoked at most once.
C20_OneRestartPerEpisode == hb_episode_starts <= 1

\* C25: in part_000 no exception escapes send_webhook: a RequestException
\* that is not ConnectionError, Timeout or HTTPError is handled like the
\* other failures, on every attempt.
C25_GeneralErrorIsRetried == old_result # "raised"

\* C26: no send_webhook stays blocked in a POST whose remote end never
\* responds: the POST ends as a Timeout failure.
C26_NoPostBlocksForever ==
    /\ pn_pc # "blocked"
    /\ old_pc # "blocked"
    /\ tr_pc # "blocked"

\* C21: a poll of the heartbeat monitor that finds the heartbeat fresh after
\* polls that found it missing or stale sends a recovery alert.
C21_RecoveryAlertAtPoll ==
    [][(/\ hb_polls' = hb_polls + 1
        /\ hb_episode_starts > 0
        /\ check_heartbeat(hb_heartbeat', heartbeat_threshold))
          => HB_Called]_vars

\* C22: the threshold check_heartbeat compares with is at least 60 seconds
\* and is the larger of 60 and the configured threshold, or of 60 and
\* int(check_interval * 1.5) when none is configured.
C22_ThresholdFloor ==
    hb_pc # "off" =>
        /\ heartbeat_threshold >= 60
        /\ hb_threshold # HB_Unset =>
               /\ heartbeat_threshold >= hb_threshold
               /\ heartbeat_threshold \in {hb_threshold, 60}
        /\ hb_threshold = HB_Unset =>
               /\ 2 * heartbeat_threshold >= 3 * check_interval - 1
               /\ \/ heartbeat_threshold = 60
                  \/ 2 * heartbeat_threshold <= 3 * check_interval
        /\ (hb_heartbeat.kind = "age" /\ hb_heartbeat.age <= 60) =>
               hb_pc # "restart"

C22_Witness ==
    /\ hb_threshold = HB_Unset
    /\ check_interval = 20
    /\ heartbeat_threshold = 60
    /\ hb_heartbeat = [kind |-> "age", age |-> 60]
    /\ hb_pc = "sleep"

C28_OneSleepBetweenPolls ==
    [][(hb_polls' = hb_polls + 1 /\ hb_polls >= 1) =>
          hb_interval_sleeps = 1]_vars

\* C29: last_alert_time of the heartbeat monitor is written by the steps of
\* the main loop only, never by the signal handler.
C29_CooldownWrittenByMainLoopOnly ==
    [][last_alert_time' # last_alert_time => hb_pc' # "exit"]_vars

\* the last pass of upload_file_to_ftp compared two different hashes
BK_Mismatch ==
    /\ bk_remote_md5 # BK_NoHash
    /\ bk_remote_md5 # bk_local_md5

\* C23: after a pass of upload_file_to_ftp whose hashes differ the upload is
\* tried again while the budget lasts and then returns False; nothing is
\* deleted from the server during upload_file_to_ftp, nor by main after a
\* failed upload.
C23_MismatchRetriedNothingDeleted ==
    /\ BK_Mismatch =>
          /\ bk_result # "True"
          /\ bk_pc = "loop" => BK_LoopCond(bk_attempt, bk_retries)
          /\ bk_pc # "loop" => bk_iterations = bk_retries + 1
    /\ (bk_pc \in {"loop", "failed"} \/ bk_result = "False") =>
          /\ bk_deleted = {}
          /\ bk_expired = {}

C23_Witness ==
    /\ bk_pc = "retained"
    /\ bk_result = "False"
    /\ BK_Mismatch
    /\ bk_retries = 1
    /\ bk_stors = 2

\* C24: upload_file_to_ftp has returned True only when the hash of the file
\* downloaded in its last pass equals the hash of the local file computed in
\* that pass.
C24_TrueOnlyIfVerified ==
    bk_result = "True" =>
        /\ bk_local_md5 # BK_NoHash
        /\ bk_remote_md5 = bk_local_md5

C24_Witness ==
    /\ bk_result = "True"
    /\ bk_iterations = 2
    /\ bk_stors = 2
    /\ bk_local_md5 = 2
    /\ bk_remote_md5 = 2

\* C30: the backups manage_backup_retention deletes by the count rule were
\* made before every backup it keeps, and the backup of this run is not
\* among them.
C30_CountRuleDeletesOldest ==
    bk_pc = "retained" =>
        /\ \A x \in bk_deleted : \A y \in bk_listing \ bk_popped :
               BK_Older(x, y)
        /\ bk_current \notin bk_deleted

\* the failed attempts of a log that are not the last attempt of a budget of
\* n attempts; ok: the outcome that is a success
FollowedFailures(outcomes, ok, n) ==
    Cardinality({i \in 1..Len(outcomes) : outcomes[i] # ok /\ i < n})

\* C31: in send_webhook of ttd_pre_notification and of ttd_transcribed and in
\* start_external_script the sleeps of one invocation are as many as its
\* failed attempts that another attempt follows: none after the last attempt.
C31_NoSleepAfterLastAttempt ==
    /\ Len(pn_sleeps) = FollowedFailures(pn_outcomes, "ok", pn_retries)
    /\ Len(tr_sleeps) = FollowedFailures(tr_outcomes, "ok", tr_retry_limit)
    /\ hb_retry_sleeps = FollowedFailures(hb_run_outcomes, "zero", HB_Retries)
    /\ (pn_result = "False" /\ pn_retries >= 1) =>
           Len(pn_sleeps) = Len(pn_outcomes) - 1
    /\ (tr_result = "False" /\ tr_retry_limit >= 1) =>
           Len(tr_sleeps) = Len(tr_outcomes) - 1

C31_Witness ==
    /\ hb_pc = "sleep_extra"
    /\ hb_run_outcomes = <<"nonzero", "exc", "nonzero">>
    /\ hb_retry_sleeps = 2

\* the send_alert calls logged after the last missed-heartbeat alert: those
\* of the start_external_script of this pass of the loop
HB_SinceMiss(alerts) ==
    {i \in 1..Len(alerts) :
        \E k \in 1..(i - 1) :
            /\ alerts[k].msg = "heartbeat_missed"
            /\ \A j \in (k + 1)..Len(alerts) :
                   alerts[j].msg # "heartbeat_missed"}

\* C32: one start_external_script runs the command at most 3 times and stops
\* at the first run that exits with code 0; only that run counts as a
\* success, and the success alert is sent after it only, at most once.
C32_RestartStopsAtFirstSuccess ==
    /\ Len(hb_run_outcomes) <= 3
    /\ \A i \in 1..Len(hb_run_outcomes) :
           hb_run_outcomes[i] = "zero" =>
               (i = Len(hb_run_outcomes) /\ hb_pc # "restart")
    /\ (hb_pc = "sleep_extra" /\ Len(hb_run_outcomes) < 3) =>
           hb_run_outcomes[Len(hb_run_outcomes)] = "zero"
    /\ hb_run_outcomes # <<>> =>
           LET ok == {i \in HB_SinceMiss(hb_alerts) :
                         hb_alerts[i].msg = "restarted"}
           IN  /\ Cardinality(ok) <= 1
               /\ ok # {} =>
                      hb_run_outcomes[Len(hb_run_outcomes)] = "zero"

C32_Witness ==
    /\ hb_pc = "sleep_extra"
    /\ hb_run_outcomes = <<"nonzero", "zero">>
    /\ hb_alerts[Len(hb_alerts)].msg = "restarted"
    /\ hb_alerts[Len(hb_alerts)].sent
    /\ hb_runs = 2

C34_TranscribedWaits ==
    /\ \A i \in 1..Len(tr_sleeps) :
           LET k == tr_sleeps[i].attempt
               raw == tr_retry_delay * Pow(2, k - 1)
           IN  /\ k = i
               /\ k < tr_retry_limit
               /\ tr_sleeps[i].wait = (IF raw <= 60 THEN raw ELSE 60)
               /\ tr_sleeps[i].wait <= 60
    /\ \A i \in 1..(Len(tr_sleeps) - 1) :
           tr_sleeps[i].wait <= tr_sleeps[i + 1].wait

C34_Witness ==
    /\ tr_retry_delay = 40
    /\ tr_retry_limit = 4
    /\ Waits(tr_sleeps) = <<40, 60, 60>>
    /\ tr_pc = "failed"

\* process_file ends in this step
TR_Ending == tr_pc \notin {"done", "raised"} /\ tr_pc' \in {"done", "raised"}

\* C35: process_file deletes the audio file only when send_webhook has
\* returned True and delete_after_processing is set; when transcription,
\* the saving of the transcript or the webhook failed, the audio file that
\* was there is still there when process_file ends.
C35_AudioDeletedOnlyAfterSuccess ==
    [][/\ (tr_audio_present /\ ~tr_audio_present') =>
              (tr_result = "True" /\ tr_delete_after)
       /\ (/\ TR_Ending
           /\ tr_result # "True"
           /\ CountIn(tr_task_notifications, {"usage"}) > 0) =>
              tr_audio_present']_vars

C35_Witness ==
    /\ tr_pc = "done"
    /\ tr_delete_after
    /\ tr_outcomes = <<"timeout", "ok">>
    /\ tr_result = "True"
    /\ ~tr_audio_present

\* the grouped alerts with the given title that carry the given message
TR_Grouped(title, what) ==
    {i \in AlertsCarrying(tr_pushover, what) : tr_pushover[i].title = title}

\* C36: when process_file has returned, task_notifications and
\* error_notifications are empty, and (Pushover configured) the finally step
\* has sent the grouped alerts of the path taken: the task summary when the
\* audio file was there, the error alert when the webhook failed or when the
\* file was missing or an exception was caught.
C36_GroupedSentListsCleared ==
    tr_pc = "done" =>
        /\ tr_task_notifications = <<>>
        /\ tr_error_notifications = <<>>
        /\ tr_creds =>
               /\ (tr_audio_present \/ tr_result = "True") =>
                      TR_Grouped("Transcription Task Summary", "usage") # {}
               /\ (tr_retry_limit > 0 /\ tr_result = "False") =>
                      TR_Grouped("Transcription Errors", "webhook_failed")
                          # {}
               /\ tr_result = "none" =>
                      TR_Grouped("Transcription Errors", "processing_error")
                          # {}

C36_Witness ==
    /\ tr_pc = "done"
    /\ tr_creds
    /\ tr_result = "False"
    /\ tr_outcomes = <<"conn", "timeout">>
    /\ TR_Grouped("Transcription Errors", "webhook_failed") # {}
    /\ TR_Grouped("Transcription Task Summary", "saved") # {}
    /\ tr_task_notifications = <<>>
    /\ tr_error_notifications = <<>>

\* C37: the files cleanup_logs of ttd_pre_notification deletes by the count
\* rule are at least as old as every file it keeps, the log file of this run
\* excepted, which is never deleted.
C37_CountRuleDeletesOldestLogs ==
    cl_pc = "done" =>
        /\ \A x \in cl_excess : \A y \in cl_kept \ {CL_Current} : x >= y
        /\ CL_Current \in cl_kept

\* C38: start_program of ttd_program_starter runs the start command again
\* (after a wait) when it exited with a non-zero code, before the failure
\* alert is its final outcome.
C38_StartIsRetried ==
    (ps_pc = "done" /\ ps_alerts # <<>>) =>
        (ps_runs >= 2 /\ ps_sleeps >= 1)

\* the run of ttd_backup.main failed: the FTP connection failed,
\* upload_file_to_ftp returned False, or main's handler caught an exception
BK_RunFailed ==
    \/ bk_main \in {"return", "exception"}
    \/ bk_result = "False"

\* C39: the notification 'Backup script completed successfully.' is never
\* delivered in a run of ttd_backup.main that failed.
C39_NoSuccessNoticeInFailedRun ==
    BK_RunFailed =>
        \A i \in 1..Len(bk_pushover) :
            ~(/\ bk_pushover[i].msg = "completed"
              /\ bk_pushover[i].sent = "delivered")

====
